---- MODULE Spec2Model ----
(***************************************************************************)
(* Model of sentry/grouping/ingest/seer.py: the decision whether to call   *)
(* the Seer similarity service while ingesting an event, the call itself   *)
(* and the bookkeeping of its answer on the GroupHash metadata.            *)
(*                                                                         *)
(* One invocation of maybe_check_seer_for_matching_grouphash (or of        *)
(* get_seer_similar_issues called on its own) is one action.  The action   *)
(* leaves, next to the state it changes (rate-limit counters, GroupHash    *)
(* metadata), a record of what it did: the calls it made in order, the     *)
(* metrics it emitted, the value it returned or the error it raised.       *)
(***************************************************************************)
EXTENDS Integers, Sequences, FiniteSets, TLC

VARIABLES
    pc,               \* "idle": the worker waits for an event; "returned": a call has just returned
    ledger,           \* GroupHash rows: id -> [project, hash, metadata]
    rlGlobal,         \* ratelimiter counter of key seer:similarity:global-limit in the current window
    rlProject,        \* ratelimiter counter of key seer:similarity:project-<id>-limit, per project
    breaker,          \* circuit breaker counters of the current window: [failures, total]
    op,               \* the function the last call entered
    event,            \* the event of the last call, as the call left it
    variants,         \* the variants of the last call (the set of variant keys)
    all_grouphashes,  \* the GroupHash list of the last call
    calls,            \* the checks and external calls the last call made, in order
    metrics,          \* the metrics the last call emitted, in order
    captured,         \* the exceptions the last call handed to sentry_sdk.capture_exception
    oracle,           \* what the external collaborators answered during the last call
    should_call,      \* what should_call_seer_for_grouping returned in the last call
    similar_issues,   \* what get_seer_similar_issues returned in the last call: [metadata, match]
    returned,         \* the value the last call returned
    raised,           \* the exception that left the last call, or None
    before,           \* ledger, counters and event.data as they were when the last call started
    workers,          \* concurrent workers inside _ratelimiting_enabled: worker -> [pc, project, counted]
    passes            \* events let through by the rate limit in the current windows: [global, project]

vars == <<pc, ledger, rlGlobal, rlProject, breaker, op, event, variants, all_grouphashes,
          calls, metrics, captured, oracle, should_call, similar_issues, returned, raised,
          before, workers, passes>>

---------------------------------------------------------------------------
(* Values *)

None == "None"
Absent == "absent"
DEFAULT_MARKER == "{{ default }}"
SEER_SIMILARITY_MODEL_VERSION == "v1"
SEER_INELIGIBLE_EVENT_PLATFORMS == {"other"}

Range(s) == {s[i] : i \in 1..Len(s)}

(* Bounds of the model *)
MaxResults == 2
MaxGroupHashes == 2
MaxCount == 3
MaxSample == 1

(* Options read at decision time *)
GlobalLimit == 2
ProjectLimit == 1
BreakerMinSample == 1
BreakerErrorPercent == 50

Projects == {1, 2}
EventIds == {"e1"}
Hashes == {"h1", "h2"}
Platforms == {"python", "other"}
StacktraceStrings == {None, "", "frames"}

\* (fingerprint, variants) as the grouping pipeline produces them
FingerprintCases ==
    { [fingerprint |-> <<DEFAULT_MARKER>>, variants |-> {"app"}],
      [fingerprint |-> <<DEFAULT_MARKER, "extra">>, variants |-> {"app"}],
      [fingerprint |-> <<"custom">>, variants |-> {"custom_fingerprint"}],
      [fingerprint |-> <<"custom">>, variants |-> {"built_in_fingerprint"}] }

\* An event as the ingest pipeline hands it over: event.data holds no
\* stacktrace_string key yet
Events(fingerprint) ==
    [ event_id : EventIds,
      project : Projects,
      backfilled : BOOLEAN,
      platform : Platforms,
      has_stacktrace : BOOLEAN,
      too_many_frames : BOOLEAN,
      fingerprint : {fingerprint},
      primary_hash : Hashes,
      stacktrace_string : {Absent} ]

\* The results Seer can answer with: parent hash and stacktrace distance
SeerResultPool ==
    { [parent_hash |-> "h1", stacktrace_distance |-> "0.01"],
      [parent_hash |-> "h2", stacktrace_distance |-> "0.02"],
      [parent_hash |-> "h3", stacktrace_distance |-> "0.03"] }

SeqsUpTo(S, n) == UNION {[1..k -> S] : k \in 0..n}

\* Seer answers a request with an error or with a list of results, best first
SeerAnswers == [error : BOOLEAN, results : SeqsUpTo(SeerResultPool, MaxResults)]

NoAnswer == [error |-> FALSE, results |-> <<>>]

\* What the external collaborators answer during one call.  A collaborator
\* that the call cannot reach any more has nothing to answer.
Oracles ==
    { o \in [killswitch : BOOLEAN, stacktrace : StacktraceStrings, seer : SeerAnswers] :
        /\ o.killswitch => o.stacktrace = None
        /\ o.stacktrace \in {None, ""} => o.seer = NoAnswer
        /\ o.seer.error => o.seer.results = <<>> }

\* GroupHash.metadata: a missing block, or a block as created with the GroupHash
NoMetadata == [exists |-> FALSE]
NewMetadata(date) ==
    [ exists |-> TRUE, date_added |-> date, seer_date_sent |-> None,
      seer_event_sent |-> None, seer_model |-> None,
      seer_matched_grouphash |-> None, seer_match_distance |-> None ]

\* The GroupHash rows the grouping pipeline has created: an old one without a
\* metadata block, a new one with it, and one of another project
InitLedger ==
    [ g \in {"g1", "g2", "g3"} |->
        CASE g = "g1" -> [project |-> 1, hash |-> "h1", metadata |-> NoMetadata]
          [] g = "g2" -> [project |-> 1, hash |-> "h2", metadata |-> NewMetadata("t2")]
          [] g = "g3" -> [project |-> 2, hash |-> "h2", metadata |-> NoMetadata] ]

GroupHashLists(project) ==
    SeqsUpTo({g \in DOMAIN InitLedger : InitLedger[g].project = project}, MaxGroupHashes)

---------------------------------------------------------------------------
(* The running context of one call: what it has done so far *)

NewContext(e) ==
    [ calls |-> <<>>, metrics |-> <<>>, captured |-> <<>>,
      rlGlobal |-> rlGlobal, rlProject |-> rlProject,
      stacktrace_string |-> e.stacktrace_string, should_call |-> "not-called" ]

Call(c, name) == [c EXCEPT !.calls = Append(@, name)]

Emit(c, m) == [c EXCEPT !.metrics = Append(@, m)]

record_did_call_seer_metric(c, call_made, blocker) ==
    Emit(c, [name |-> "did_call_seer", call_made |-> call_made, blocker |-> blocker])

---------------------------------------------------------------------------
(* External collaborators of the gate *)

event_content_has_stacktrace(e) == e.has_stacktrace

has_too_many_contributing_frames(e, v) == e.too_many_frames

killswitch_enabled(e, o, c) ==
    [val |-> o.killswitch, ctx |-> Call(c, "killswitch_enabled")]

get_stacktrace_string_with_metrics(v, o, c) ==
    [val |-> o.stacktrace, ctx |-> Call(c, "get_stacktrace_string_with_metrics")]

\* ratelimiter.backend.is_limited: count the attempt, then compare with the limit
is_limited(count, limit) ==
    [count |-> count + 1, limited |-> count + 1 > limit]

\* CircuitBreaker.should_allow_request: deny once the failure ratio over at
\* least the minimum sample exceeds the threshold
should_allow_request(b) ==
    ~(b.total >= BreakerMinSample /\ b.failures * 100 > BreakerErrorPercent * b.total)

---------------------------------------------------------------------------
(* The checks of the gate.  Each gives [val, ctx]: its answer and the       *)
(* context after it ran.                                                    *)

\* x bound to a value once computed
With(x, Body(_)) == Body(x)

\* Python's `a or b`: b is evaluated, in the context a left, only if a is false
Or(a, b(_)) == IF a.val THEN a ELSE b(a.ctx)

Not(a) == [val |-> ~a.val, ctx |-> a.ctx]

_event_content_is_seer_eligible(e, c) ==
    LET c1 == Call(c, "_event_content_is_seer_eligible") IN
    IF ~event_content_has_stacktrace(e)
    THEN [val |-> FALSE,
          ctx |-> Emit(c1, [name |-> "event_content_seer_eligible",
                            eligible |-> FALSE, blocker |-> "no-stacktrace"])]
    ELSE IF e.platform \in SEER_INELIGIBLE_EVENT_PLATFORMS
    THEN [val |-> FALSE,
          ctx |-> Emit(c1, [name |-> "event_content_seer_eligible",
                            eligible |-> FALSE, blocker |-> "unsupported-platform"])]
    ELSE [val |-> TRUE,
          ctx |-> Emit(c1, [name |-> "event_content_seer_eligible",
                            eligible |-> TRUE, blocker |-> "none"])]

_has_too_many_contributing_frames(e, v, c) ==
    LET c1 == Call(c, "_has_too_many_contributing_frames") IN
    IF has_too_many_contributing_frames(e, v)
    THEN [val |-> TRUE, ctx |-> record_did_call_seer_metric(c1, FALSE, "excess-frames")]
    ELSE [val |-> FALSE, ctx |-> c1]

_project_has_similarity_grouping_enabled(e, c) ==
    LET c1 == Call(c, "_project_has_similarity_grouping_enabled")
        has_been_backfilled == e.backfilled
    IN [val |-> has_been_backfilled,
        ctx |-> Emit(c1, [name |-> "event_project_backfill_status",
                          backfilled |-> has_been_backfilled])]

\* Faulty variant: any fingerprint holding the default marker counts as default
_has_customized_fingerprint_marker_only(e, v, c) ==
    LET c1 == Call(c, "_has_customized_fingerprint")
        fingerprint == e.fingerprint
    IN IF DEFAULT_MARKER \in Range(fingerprint)
       THEN [val |-> FALSE, ctx |-> c1]
       ELSE LET fingerprint_variant ==
                    IF "custom_fingerprint" \in v THEN "custom_fingerprint"
                    ELSE IF "built_in_fingerprint" \in v THEN "built_in_fingerprint"
                    ELSE None
            IN IF fingerprint_variant # None
               THEN [val |-> TRUE,
                     ctx |-> record_did_call_seer_metric(c1, FALSE, fingerprint_variant)]
               ELSE [val |-> FALSE, ctx |-> c1]

_has_customized_fingerprint(e, v, c) ==
    LET c1 == Call(c, "_has_customized_fingerprint")
        fingerprint == e.fingerprint
    IN IF DEFAULT_MARKER \in Range(fingerprint)
       THEN IF Len(fingerprint) = 1
            THEN [val |-> FALSE, ctx |-> c1]
            ELSE [val |-> TRUE,
                  ctx |-> record_did_call_seer_metric(c1, FALSE, "hybrid-fingerprint")]
       ELSE LET fingerprint_variant ==
                    IF "custom_fingerprint" \in v THEN "custom_fingerprint"
                    ELSE IF "built_in_fingerprint" \in v THEN "built_in_fingerprint"
                    ELSE None
            IN IF fingerprint_variant # None
               THEN [val |-> TRUE,
                     ctx |-> record_did_call_seer_metric(c1, FALSE, fingerprint_variant)]
               ELSE [val |-> FALSE, ctx |-> c1]

\* Faulty variant: the per-project key is consulted before the global key
_ratelimiting_enabled_project_first(e, c) ==
    LET p == is_limited(c.rlProject[e.project], ProjectLimit)
        c1 == [Call(Call(c, "_ratelimiting_enabled"), "is_limited:project")
                  EXCEPT !.rlProject[e.project] = p.count]
    IN IF p.limited
       THEN [val |-> TRUE,
             ctx |-> record_did_call_seer_metric(c1, FALSE, "project-rate-limit")]
       ELSE LET g == is_limited(c1.rlGlobal, GlobalLimit)
                c2 == [Call(c1, "is_limited:global") EXCEPT !.rlGlobal = g.count]
            IN IF g.limited
               THEN [val |-> TRUE,
                     ctx |-> record_did_call_seer_metric(c2, FALSE, "global-rate-limit")]
               ELSE [val |-> FALSE, ctx |-> c2]

\* Faulty variant: a per-project limit that is hit does not reject
_ratelimiting_enabled_project_ignored(e, c) ==
    LET g == is_limited(c.rlGlobal, GlobalLimit)
        c1 == [Call(Call(c, "_ratelimiting_enabled"), "is_limited:global")
                  EXCEPT !.rlGlobal = g.count]
    IN IF g.limited
       THEN [val |-> TRUE,
             ctx |-> record_did_call_seer_metric(c1, FALSE, "global-rate-limit")]
       ELSE LET p == is_limited(c1.rlProject[e.project], ProjectLimit)
                c2 == [Call(c1, "is_limited:project")
                          EXCEPT !.rlProject[e.project] = p.count]
            IN IF p.limited
               THEN [val |-> FALSE,
                     ctx |-> record_did_call_seer_metric(c2, FALSE, "project-rate-limit")]
               ELSE [val |-> FALSE, ctx |-> c2]

\* Faulty variant: both keys are consulted before either answer is used
_ratelimiting_enabled_both_consulted(e, c) ==
    LET g == is_limited(c.rlGlobal, GlobalLimit)
        p == is_limited(c.rlProject[e.project], ProjectLimit)
        c1 == [Call(Call(Call(c, "_ratelimiting_enabled"), "is_limited:global"),
                    "is_limited:project")
                  EXCEPT !.rlGlobal = g.count, !.rlProject[e.project] = p.count]
    IN IF g.limited
       THEN [val |-> TRUE,
             ctx |-> record_did_call_seer_metric(c1, FALSE, "global-rate-limit")]
       ELSE IF p.limited
       THEN [val |-> TRUE,
             ctx |-> record_did_call_seer_metric(c1, FALSE, "project-rate-limit")]
       ELSE [val |-> FALSE, ctx |-> c1]

_ratelimiting_enabled(e, c) ==
    LET g == is_limited(c.rlGlobal, GlobalLimit)
        c1 == [Call(Call(c, "_ratelimiting_enabled"), "is_limited:global")
                  EXCEPT !.rlGlobal = g.count]
    IN IF g.limited
       THEN [val |-> TRUE,
             ctx |-> record_did_call_seer_metric(c1, FALSE, "global-rate-limit")]
       ELSE LET p == is_limited(c1.rlProject[e.project], ProjectLimit)
                c2 == [Call(c1, "is_limited:project")
                          EXCEPT !.rlProject[e.project] = p.count]
            IN IF p.limited
               THEN [val |-> TRUE,
                     ctx |-> record_did_call_seer_metric(c2, FALSE, "project-rate-limit")]
               ELSE [val |-> FALSE, ctx |-> c2]

\* Faulty variant: the breaker's answer is taken the wrong way round
_circuit_breaker_broken_inverted(e, c) ==
    LET c1 == Call(Call(c, "_circuit_breaker_broken"), "should_allow_request")
        circuit_broken == should_allow_request(breaker)
    IN IF circuit_broken
       THEN [val |-> TRUE,
             ctx |-> record_did_call_seer_metric(c1, FALSE, "circuit-breaker")]
       ELSE [val |-> FALSE, ctx |-> c1]

\* Faulty variant: an open breaker rejects without recording its blocker
_circuit_breaker_broken_unrecorded(e, c) ==
    [val |-> ~should_allow_request(breaker),
     ctx |-> Call(Call(c, "_circuit_breaker_broken"), "should_allow_request")]

_circuit_breaker_broken(e, c) ==
    LET c1 == Call(Call(c, "_circuit_breaker_broken"), "should_allow_request")
        circuit_broken == ~should_allow_request(breaker)
    IN IF circuit_broken
       THEN [val |-> TRUE,
             ctx |-> record_did_call_seer_metric(c1, FALSE, "circuit-breaker")]
       ELSE [val |-> FALSE, ctx |-> c1]

\* Faulty variant: only the empty string counts as empty, a missing one passes
_has_empty_stacktrace_string_none_passes(e, v, o, c) ==
    LET s == get_stacktrace_string_with_metrics(v, o, Call(c, "_has_empty_stacktrace_string"))
        stacktrace_string == s.val
    IN IF stacktrace_string = ""
       THEN [val |-> TRUE,
             ctx |-> record_did_call_seer_metric(s.ctx, FALSE, "empty-stacktrace-string")]
       ELSE [val |-> FALSE,
             ctx |-> [s.ctx EXCEPT !.stacktrace_string = stacktrace_string]]

_has_empty_stacktrace_string(e, v, o, c) ==
    LET s == get_stacktrace_string_with_metrics(v, o, Call(c, "_has_empty_stacktrace_string"))
        stacktrace_string == s.val
    IN IF stacktrace_string \in {None, ""}
       THEN [val |-> TRUE,
             ctx |-> IF stacktrace_string = ""
                     THEN record_did_call_seer_metric(s.ctx, FALSE, "empty-stacktrace-string")
                     ELSE s.ctx]
       ELSE [val |-> FALSE,
             ctx |-> [s.ctx EXCEPT !.stacktrace_string = stacktrace_string]]

\* Faulty variant: ineligible content returns before the backfill flag is read
should_call_seer_for_grouping_content_returns(e, v, o, c) ==
    With(_event_content_is_seer_eligible(e, c), LAMBDA content_is_eligible :
      IF ~content_is_eligible.val
      THEN [val |-> FALSE, ctx |-> content_is_eligible.ctx]
      ELSE
      With(_project_has_similarity_grouping_enabled(e, content_is_eligible.ctx),
           LAMBDA seer_enabled_for_project :
        IF ~seer_enabled_for_project.val
        THEN [val |-> FALSE, ctx |-> seer_enabled_for_project.ctx]
        ELSE Not(
          Or(_has_customized_fingerprint(e, v, seer_enabled_for_project.ctx), LAMBDA c1 :
          Or(_has_too_many_contributing_frames(e, v, c1), LAMBDA c2 :
          Or(killswitch_enabled(e, o, c2), LAMBDA c3 :
          Or(_circuit_breaker_broken(e, c3), LAMBDA c4 :
          Or(_has_empty_stacktrace_string(e, v, o, c4), LAMBDA c5 :
          _ratelimiting_enabled(e, c5)))))))))

\* Faulty variant: the rate limit is checked before the stacktrace string
should_call_seer_for_grouping_rate_limit_early(e, v, o, c) ==
    With(_event_content_is_seer_eligible(e, c), LAMBDA content_is_eligible :
    With(_project_has_similarity_grouping_enabled(e, content_is_eligible.ctx),
         LAMBDA seer_enabled_for_project :
      IF ~(content_is_eligible.val /\ seer_enabled_for_project.val)
      THEN [val |-> FALSE, ctx |-> seer_enabled_for_project.ctx]
      ELSE Not(
        Or(_has_customized_fingerprint(e, v, seer_enabled_for_project.ctx), LAMBDA c1 :
        Or(_has_too_many_contributing_frames(e, v, c1), LAMBDA c2 :
        Or(killswitch_enabled(e, o, c2), LAMBDA c3 :
        Or(_circuit_breaker_broken(e, c3), LAMBDA c4 :
        Or(_ratelimiting_enabled(e, c4), LAMBDA c5 :
        _has_empty_stacktrace_string(e, v, o, c5)))))))))

\* Faulty variant: excess frames are checked before the customized fingerprint
should_call_seer_for_grouping_frames_first(e, v, o, c) ==
    With(_event_content_is_seer_eligible(e, c), LAMBDA content_is_eligible :
    With(_project_has_similarity_grouping_enabled(e, content_is_eligible.ctx),
         LAMBDA seer_enabled_for_project :
      IF ~(content_is_eligible.val /\ seer_enabled_for_project.val)
      THEN [val |-> FALSE, ctx |-> seer_enabled_for_project.ctx]
      ELSE Not(
        Or(_has_too_many_contributing_frames(e, v, seer_enabled_for_project.ctx),
           LAMBDA c1 :
        Or(_has_customized_fingerprint(e, v, c1), LAMBDA c2 :
        Or(killswitch_enabled(e, o, c2), LAMBDA c3 :
        Or(_circuit_breaker_broken(e, c3), LAMBDA c4 :
        Or(_has_empty_stacktrace_string(e, v, o, c4), LAMBDA c5 :
        _ratelimiting_enabled(e, c5)))))))))

should_call_seer_for_grouping(e, v, o, c) ==
    With(_event_content_is_seer_eligible(e, c), LAMBDA content_is_eligible :
    With(_project_has_similarity_grouping_enabled(e, content_is_eligible.ctx),
         LAMBDA seer_enabled_for_project :
      IF ~(content_is_eligible.val /\ seer_enabled_for_project.val)
      THEN [val |-> FALSE, ctx |-> seer_enabled_for_project.ctx]
      ELSE Not(
        Or(_has_customized_fingerprint(e, v, seer_enabled_for_project.ctx), LAMBDA c1 :
        Or(_has_too_many_contributing_frames(e, v, c1), LAMBDA c2 :
        Or(killswitch_enabled(e, o, c2), LAMBDA c3 :
        Or(_circuit_breaker_broken(e, c3), LAMBDA c4 :
        Or(_has_empty_stacktrace_string(e, v, o, c4), LAMBDA c5 :
        _ratelimiting_enabled(e, c5)))))))))

---------------------------------------------------------------------------
(* The Seer request and the reconciliation of its answer *)

get_similarity_data_from_seer(o, c) ==
    [val |-> o.seer, ctx |-> Call(c, "get_similarity_data_from_seer")]

\* Faulty variant: the lookup does not filter by project
GroupHashLookup_any_project(L, hash, project) ==
    LET found == {g \in DOMAIN L : L[g].hash = hash}
    IN IF found = {} THEN None ELSE CHOOSE g \in found : TRUE

\* GroupHash.objects.filter(hash=..., project_id=...).first()
GroupHashLookup(L, hash, project) ==
    LET found == {g \in DOMAIN L : L[g].hash = hash /\ L[g].project = project}
    IN IF found = {} THEN None ELSE CHOOSE g \in found : TRUE

NoSimilarIssues ==
    [metadata |-> [results |-> <<>>, similarity_model_version |-> None], match |-> None]

\* Faulty variant: the recomputed stacktrace string is used, not the cached one
get_seer_similar_issues_cache_ignored(e, v, o, c, L) ==
    With(get_stacktrace_string_with_metrics(
             v, o, Call(Call(c, "get_seer_similar_issues"), "get_primary_hash")),
         LAMBDA recomputed :
      IF recomputed.val \in {None, ""}
      THEN [raised |-> None,
            metadata |-> [results |-> <<>>,
                          similarity_model_version |-> SEER_SIMILARITY_MODEL_VERSION],
            match |-> None, ctx |-> recomputed.ctx]
      ELSE
      With(get_similarity_data_from_seer(
               o, [recomputed.ctx EXCEPT !.stacktrace_string = Absent]),
           LAMBDA response :
        IF response.val.error
        THEN [raised |-> "Exception", metadata |-> NoSimilarIssues.metadata,
              match |-> None, ctx |-> response.ctx]
        ELSE
        With(response.val.results, LAMBDA seer_results :
          [raised |-> None,
           metadata |-> [results |-> seer_results,
                         similarity_model_version |-> SEER_SIMILARITY_MODEL_VERSION],
           match |-> IF seer_results # <<>>
                     THEN GroupHashLookup(L, seer_results[1].parent_hash, e.project)
                     ELSE None,
           ctx |-> IF seer_results # <<>>
                   THEN Call(response.ctx, "GroupHash.objects.filter")
                   ELSE response.ctx])))

\* Gives [raised, metadata, match, ctx]
get_seer_similar_issues(e, v, o, c, L) ==
    With(get_stacktrace_string_with_metrics(
             v, o, Call(Call(c, "get_seer_similar_issues"), "get_primary_hash")),
         LAMBDA recomputed :
    With(IF recomputed.ctx.stacktrace_string # Absent
         THEN recomputed.ctx.stacktrace_string
         ELSE recomputed.val,
         LAMBDA stacktrace_string :
      IF stacktrace_string \in {None, ""}
      THEN [raised |-> None,
            metadata |-> [results |-> <<>>,
                          similarity_model_version |-> SEER_SIMILARITY_MODEL_VERSION],
            match |-> None, ctx |-> recomputed.ctx]
      ELSE
      With(get_similarity_data_from_seer(
               o, [recomputed.ctx EXCEPT !.stacktrace_string = Absent]),
           LAMBDA response :
        IF response.val.error
        THEN [raised |-> "Exception", metadata |-> NoSimilarIssues.metadata,
              match |-> None, ctx |-> response.ctx]
        ELSE
        With(response.val.results, LAMBDA seer_results :
          [raised |-> None,
           metadata |-> [results |-> seer_results,
                         similarity_model_version |-> SEER_SIMILARITY_MODEL_VERSION],
           match |-> IF seer_results # <<>>
                     THEN GroupHashLookup(L, seer_results[1].parent_hash, e.project)
                     ELSE None,
           ctx |-> IF seer_results # <<>>
                   THEN Call(response.ctx, "GroupHash.objects.filter")
                   ELSE response.ctx]))))

capture_exception(c, exc) ==
    [Call(c, "capture_exception") EXCEPT !.captured = Append(@, exc)]

\* Faulty variant: the first candidate is taken without looking at its hash
GroupHashesSent_unfiltered(grouphashes, primary_hash, L) ==
    grouphashes

\* list(filter(lambda grouphash: grouphash.hash == primary_hash, all_grouphashes))
GroupHashesSent(grouphashes, primary_hash, L) ==
    LET HasPrimaryHash(g) == L[g].hash = primary_hash
    IN SelectSeq(grouphashes, HasPrimaryHash)

\* Faulty variant: the distance of the top result is stored whether or not it
\* led to a match
UpdateSeerMetadata_any_distance(L, grouphash_sent, e, seer_response_data, seer_matched_grouphash) ==
    LET gh_metadata == L[grouphash_sent].metadata
    IN [L EXCEPT ![grouphash_sent].metadata =
          [gh_metadata EXCEPT
             !.seer_date_sent = gh_metadata.date_added,
             !.seer_event_sent = e.event_id,
             !.seer_model = seer_response_data.similarity_model_version,
             !.seer_matched_grouphash = seer_matched_grouphash,
             !.seer_match_distance =
                 IF seer_response_data.results # <<>>
                 THEN seer_response_data.results[1].stacktrace_distance
                 ELSE None]]

\* gh_metadata.update(...) on the metadata block of grouphash_sent
UpdateSeerMetadata(L, grouphash_sent, e, seer_response_data, seer_matched_grouphash) ==
    LET gh_metadata == L[grouphash_sent].metadata
    IN [L EXCEPT ![grouphash_sent].metadata =
          [gh_metadata EXCEPT
             !.seer_date_sent = gh_metadata.date_added,
             !.seer_event_sent = e.event_id,
             !.seer_model = seer_response_data.similarity_model_version,
             !.seer_matched_grouphash = seer_matched_grouphash,
             !.seer_match_distance =
                 IF seer_matched_grouphash # None
                 THEN seer_response_data.results[1].stacktrace_distance
                 ELSE None]]

\* Faulty variant: the metadata is updated only when Seer found a match
ReconcileSeerResponse_match_only(e, grouphashes, r, L) ==
    IF r.raised # None
    THEN [returned |-> None, raised |-> None,
          ctx |-> capture_exception(r.ctx, r.raised), ledger |-> L,
          similar_issues |-> NoSimilarIssues]
    ELSE
    With(GroupHashesSent(grouphashes, e.primary_hash, L), LAMBDA sent :
      IF sent = <<>>
      THEN [returned |-> None, raised |-> "IndexError",
            ctx |-> Call(r.ctx, "all_grouphashes"), ledger |-> L,
            similar_issues |-> [metadata |-> r.metadata, match |-> r.match]]
      ELSE [returned |-> r.match, raised |-> None,
            ctx |-> Call(r.ctx, "all_grouphashes"),
            similar_issues |-> [metadata |-> r.metadata, match |-> r.match],
            ledger |->
               IF L[sent[1]].metadata.exists /\ r.match # None
               THEN UpdateSeerMetadata(L, sent[1], e, r.metadata, r.match)
               ELSE L])

\* Faulty variant: an error of the Seer call is not caught
ReconcileSeerResponse_uncaught(e, grouphashes, r, L) ==
    IF r.raised # None
    THEN [returned |-> None, raised |-> r.raised, ctx |-> r.ctx, ledger |-> L,
          similar_issues |-> NoSimilarIssues]
    ELSE
    With(GroupHashesSent(grouphashes, e.primary_hash, L), LAMBDA sent :
      IF sent = <<>>
      THEN [returned |-> None, raised |-> "IndexError",
            ctx |-> Call(r.ctx, "all_grouphashes"), ledger |-> L,
            similar_issues |-> [metadata |-> r.metadata, match |-> r.match]]
      ELSE [returned |-> r.match, raised |-> None,
            ctx |-> Call(r.ctx, "all_grouphashes"),
            similar_issues |-> [metadata |-> r.metadata, match |-> r.match],
            ledger |->
               IF L[sent[1]].metadata.exists
               THEN UpdateSeerMetadata(L, sent[1], e, r.metadata, r.match)
               ELSE L])

\* The part of maybe_check_seer_for_matching_grouphash after the Seer call:
\* r is what get_seer_similar_issues gave
ReconcileSeerResponse(e, grouphashes, r, L) ==
    IF r.raised # None
    THEN [returned |-> None, raised |-> None,
          ctx |-> capture_exception(r.ctx, r.raised), ledger |-> L,
          similar_issues |-> NoSimilarIssues]
    ELSE
    With(GroupHashesSent(grouphashes, e.primary_hash, L), LAMBDA sent :
      IF sent = <<>>
      THEN [returned |-> None, raised |-> "IndexError",
            ctx |-> Call(r.ctx, "all_grouphashes"), ledger |-> L,
            similar_issues |-> [metadata |-> r.metadata, match |-> r.match]]
      ELSE [returned |-> r.match, raised |-> None,
            ctx |-> Call(r.ctx, "all_grouphashes"),
            similar_issues |-> [metadata |-> r.metadata, match |-> r.match],
            ledger |->
               IF L[sent[1]].metadata.exists
               THEN UpdateSeerMetadata(L, sent[1], e, r.metadata, r.match)
               ELSE L])

\* Faulty variant: Seer is called whatever the gate says
maybe_check_seer_for_matching_grouphash_ungated(e, v, grouphashes, o, c, L) ==
    With(should_call_seer_for_grouping(e, v, o, c), LAMBDA gate :
      ReconcileSeerResponse(e, grouphashes,
          get_seer_similar_issues(e, v, o,
              record_did_call_seer_metric(
                  [gate.ctx EXCEPT !.should_call = IF gate.val THEN "True" ELSE "False"],
                  TRUE, "none"),
              L),
          L))

\* Gives [returned, raised, ctx, ledger, similar_issues]
maybe_check_seer_for_matching_grouphash(e, v, grouphashes, o, c, L) ==
    With(should_call_seer_for_grouping(e, v, o, c), LAMBDA gate :
      IF ~gate.val
      THEN [returned |-> None, raised |-> None,
            ctx |-> [gate.ctx EXCEPT !.should_call = "False"], ledger |-> L,
            similar_issues |-> NoSimilarIssues]
      ELSE
      ReconcileSeerResponse(e, grouphashes,
          get_seer_similar_issues(e, v, o,
              record_did_call_seer_metric(
                  [gate.ctx EXCEPT !.should_call = "True"], TRUE, "none"),
              L),
          L))

---------------------------------------------------------------------------
(* The state machine *)

MaxWorkers == 3

Workers == 1..MaxWorkers

\* A worker that is not inside _ratelimiting_enabled
IdleWorker == [pc |-> "idle", project |-> 0, counted |-> FALSE]

NoPasses == [global |-> 0, project |-> [p \in Projects |-> 0]]

NoEvent ==
    [ event_id |-> None, project |-> 0, backfilled |-> FALSE, platform |-> None,
      has_stacktrace |-> FALSE, too_many_frames |-> FALSE, fingerprint |-> <<>>,
      primary_hash |-> None, stacktrace_string |-> Absent ]

Snapshot(e) ==
    [ledger |-> ledger, rlGlobal |-> rlGlobal, rlProject |-> rlProject,
     stacktrace_string |-> e.stacktrace_string]

\* The answers that let a call go as far as it can
Permissive == [killswitch |-> FALSE, stacktrace |-> "frames", seer |-> NoAnswer]

NoOracle == [killswitch |-> FALSE, stacktrace |-> None, seer |-> NoAnswer]

Init ==
    /\ pc = "idle"
    /\ ledger = InitLedger
    /\ workers = [w \in Workers |-> IdleWorker]
    /\ passes = NoPasses
    /\ rlGlobal = 0
    /\ rlProject = [p \in Projects |-> 0]
    /\ breaker = [failures |-> 0, total |-> 0]
    /\ op = None
    /\ event = NoEvent
    /\ variants = {}
    /\ all_grouphashes = <<>>
    /\ calls = <<>>
    /\ metrics = <<>>
    /\ captured = <<>>
    /\ oracle = NoOracle
    /\ should_call = "not-called"
    /\ similar_issues = NoSimilarIssues
    /\ returned = None
    /\ raised = None
    /\ before = Snapshot(NoEvent)

\* An answer of a collaborator that was not asked is not part of the call
Asked(o, made) ==
    /\ "killswitch_enabled" \notin made => o.killswitch = FALSE
    /\ "get_stacktrace_string_with_metrics" \notin made => o.stacktrace = None
    /\ "get_similarity_data_from_seer" \notin made => o.seer = NoAnswer

\* The event as the call leaves it: event.data with or without the
\* stacktrace_string key, and the primary hash once the call has computed it
EventAfter(e, c) ==
    [e EXCEPT !.stacktrace_string = c.stacktrace_string,
              !.primary_hash = IF "get_primary_hash" \in Range(c.calls) THEN @ ELSE None]

\* The GroupHash list once the call has read it
GroupHashesRead(grouphashes, c) ==
    IF "all_grouphashes" \in Range(c.calls) THEN grouphashes ELSE <<>>

\* The rate-limit counters are followed up to MaxCount
CountersInBounds(c) ==
    /\ c.rlGlobal <= MaxCount
    /\ \A p \in Projects : c.rlProject[p] <= MaxCount

\* The ingest pipeline calls maybe_check_seer_for_matching_grouphash for an event
MaybeCheckSeer ==
    /\ pc = "idle"
    /\ \E fc \in FingerprintCases : \E e \in Events(fc.fingerprint) :
        \E reach \in {Range(maybe_check_seer_for_matching_grouphash(
                         e, fc.variants, <<>>, Permissive, NewContext(e), ledger).ctx.calls)} :
        \E o \in {a \in Oracles : Asked(a, reach)} :
          \E grouphashes \in GroupHashLists(e.project) :
            \E r \in {maybe_check_seer_for_matching_grouphash(
                         e, fc.variants, grouphashes, o, NewContext(e), ledger)} :
               /\ Asked(o, Range(r.ctx.calls))
               /\ CountersInBounds(r.ctx)
               /\ pc' = "returned"
               /\ op' = "maybe_check_seer_for_matching_grouphash"
               /\ event' = EventAfter(e, r.ctx)
               /\ variants' = fc.variants
               /\ all_grouphashes' = GroupHashesRead(grouphashes, r.ctx)
               /\ calls' = r.ctx.calls
               /\ metrics' = r.ctx.metrics
               /\ captured' = r.ctx.captured
               /\ oracle' = o
               /\ should_call' = r.ctx.should_call
               /\ similar_issues' = r.similar_issues
               /\ returned' = r.returned
               /\ raised' = r.raised
               /\ ledger' = r.ledger
               /\ rlGlobal' = r.ctx.rlGlobal
               /\ rlProject' = r.ctx.rlProject
               /\ before' = Snapshot(e)
               /\ UNCHANGED <<breaker, workers, passes>>

\* The events get_seer_similar_issues is called with on its own: it reads the
\* project, the primary hash and event.data, where the stacktrace_string key
\* may be cached, empty or missing
EventsWithCache ==
    { [e EXCEPT !.stacktrace_string = s] :
        e \in { x \in Events(<<DEFAULT_MARKER>>) :
                  /\ x.backfilled /\ x.has_stacktrace /\ ~x.too_many_frames
                  /\ x.platform \notin SEER_INELIGIBLE_EVENT_PLATFORMS },
        s \in {Absent, "", "frames"} }

\* A caller calls get_seer_similar_issues directly
GetSeerSimilarIssues ==
    /\ pc = "idle"
    /\ \E e \in EventsWithCache, o \in Oracles :
        \E r \in {get_seer_similar_issues(e, {"app"}, o, NewContext(e), ledger)} :
           /\ Asked(o, Range(r.ctx.calls))
           /\ pc' = "returned"
           /\ op' = "get_seer_similar_issues"
           /\ event' = EventAfter(e, r.ctx)
           /\ variants' = {"app"}
           /\ all_grouphashes' = <<>>
           /\ calls' = r.ctx.calls
           /\ metrics' = r.ctx.metrics
           /\ captured' = r.ctx.captured
           /\ oracle' = o
           /\ should_call' = r.ctx.should_call
           /\ similar_issues' = [metadata |-> r.metadata, match |-> r.match]
           /\ returned' = r.match
           /\ raised' = r.raised
           /\ before' = Snapshot(e)
           /\ UNCHANGED <<workers, passes, ledger, rlGlobal, rlProject, breaker>>

\* The caller takes the result and the worker waits for the next event
NextEvent ==
    /\ pc = "returned"
    /\ pc' = "idle"
    /\ op' = None
    /\ event' = NoEvent
    /\ variants' = {}
    /\ all_grouphashes' = <<>>
    /\ calls' = <<>>
    /\ metrics' = <<>>
    /\ captured' = <<>>
    /\ oracle' = NoOracle
    /\ should_call' = "not-called"
    /\ similar_issues' = NoSimilarIssues
    /\ returned' = None
    /\ raised' = None
    /\ before' = Snapshot(NoEvent)
    /\ UNCHANGED <<workers, passes, ledger, rlGlobal, rlProject, breaker>>

\* The rate-limit window ends: both keys start a new bucket
WindowExpire ==
    /\ pc = "idle"
    /\ rlGlobal > 0
    /\ rlGlobal' = 0
    /\ rlProject' = [p \in Projects |-> 0]
    /\ before' = [before EXCEPT !.rlGlobal = 0, !.rlProject = [p \in Projects |-> 0]]
    /\ UNCHANGED <<workers, passes, pc, ledger, breaker, op, event, variants, all_grouphashes, calls,
                   metrics, captured, oracle, should_call, similar_issues, returned,
                   raised>>

\* The Seer client reports the outcome of a request to the circuit breaker
BreakerRecord ==
    /\ pc = "idle"
    /\ breaker.total < MaxSample
    /\ \E failed \in BOOLEAN :
         breaker' = [failures |-> breaker.failures + (IF failed THEN 1 ELSE 0),
                     total |-> breaker.total + 1]
    /\ UNCHANGED <<workers, passes, pc, ledger, rlGlobal, rlProject, op, event, variants, all_grouphashes,
                   calls, metrics, captured, oracle, should_call, similar_issues,
                   returned, raised, before>>

\* The circuit breaker's window ends
BreakerWindowExpire ==
    /\ pc = "idle"
    /\ breaker.total > 0
    /\ breaker' = [failures |-> 0, total |-> 0]
    /\ UNCHANGED <<workers, passes, pc, ledger, rlGlobal, rlProject, op, event, variants, all_grouphashes,
                   calls, metrics, captured, oracle, should_call, similar_issues,
                   returned, raised, before>>

Next ==
    \/ MaybeCheckSeer
    \/ GetSeerSimilarIssues
    \/ NextEvent
    \/ WindowExpire
    \/ BreakerRecord
    \/ BreakerWindowExpire

Spec == Init /\ [][Next]_vars

---------------------------------------------------------------------------
(* _has_customized_fingerprint on its own, over every fingerprint list and  *)
(* every set of variants within the bounds                                  *)

MaxFingerprintLen == 2

FingerprintValues == {DEFAULT_MARKER, "extra", "custom"}

VariantKeys == {"app", "system", "custom_fingerprint", "built_in_fingerprint"}

\* event.data.get("fingerprint", []): a missing key reads as the empty list
Fingerprints == SeqsUpTo(FingerprintValues, MaxFingerprintLen)

InitFingerprint ==
    /\ pc = "idle"
    /\ ledger = InitLedger
    /\ workers = [w \in Workers |-> IdleWorker]
    /\ passes = NoPasses
    /\ rlGlobal = 0
    /\ rlProject = [p \in Projects |-> 0]
    /\ breaker = [failures |-> 0, total |-> 0]
    /\ op = None
    /\ event \in {[NoEvent EXCEPT !.fingerprint = f] : f \in Fingerprints}
    /\ variants \in SUBSET VariantKeys
    /\ all_grouphashes = <<>>
    /\ calls = <<>>
    /\ metrics = <<>>
    /\ captured = <<>>
    /\ oracle = NoOracle
    /\ should_call = "not-called"
    /\ similar_issues = NoSimilarIssues
    /\ returned = None
    /\ raised = None
    /\ before = Snapshot(NoEvent)

HasCustomizedFingerprint ==
    /\ pc = "idle"
    /\ \E r \in {_has_customized_fingerprint(event, variants, NewContext(event))} :
         /\ pc' = "returned"
         /\ op' = "_has_customized_fingerprint"
         /\ calls' = r.ctx.calls
         /\ metrics' = r.ctx.metrics
         /\ returned' = IF r.val THEN "True" ELSE "False"
    /\ UNCHANGED <<workers, passes, ledger, rlGlobal, rlProject, breaker, event, variants, all_grouphashes,
                   captured, oracle, should_call, similar_issues, raised, before>>

NextFingerprint == HasCustomizedFingerprint

SpecFingerprint == InitFingerprint /\ [][NextFingerprint]_vars

---------------------------------------------------------------------------
(* _ratelimiting_enabled run twice in a row for one project, in one window, *)
(* by the only worker.  The two keys have windows of their own, so the      *)
(* counters can be found in any combination.                                *)

InitRateLimit ==
    /\ pc = "idle"
    /\ ledger = InitLedger
    /\ workers = [w \in Workers |-> IdleWorker]
    /\ passes = NoPasses
    /\ rlGlobal \in 0..MaxCount
    /\ rlProject \in [Projects -> 0..MaxCount]
    /\ breaker = [failures |-> 0, total |-> 0]
    /\ op = None
    /\ event \in {[NoEvent EXCEPT !.event_id = id, !.project = p] :
                     id \in EventIds, p \in Projects}
    /\ variants = {}
    /\ all_grouphashes = <<>>
    /\ calls = <<>>
    /\ metrics = <<>>
    /\ captured = <<>>
    /\ oracle = NoOracle
    /\ should_call = "not-called"
    /\ similar_issues = NoSimilarIssues
    /\ returned = <<>>
    /\ raised = None
    /\ before = Snapshot(event)

\* One run of the check; returned collects the answers of the runs in order
RatelimitingEnabled ==
    /\ Len(returned) < 2
    /\ \E r \in {_ratelimiting_enabled(
                    event, [NewContext(event) EXCEPT !.calls = calls, !.metrics = metrics])} :
         /\ op' = "_ratelimiting_enabled"
         /\ rlGlobal' = r.ctx.rlGlobal
         /\ rlProject' = r.ctx.rlProject
         /\ calls' = r.ctx.calls
         /\ metrics' = r.ctx.metrics
         /\ returned' = Append(returned, IF r.val THEN "True" ELSE "False")
    /\ UNCHANGED <<workers, passes, pc, ledger, breaker, event, variants, all_grouphashes, captured,
                   oracle, should_call, similar_issues, raised, before>>

NextRateLimit == RatelimitingEnabled

SpecRateLimit == InitRateLimit /\ [][NextRateLimit]_vars

---------------------------------------------------------------------------
(* Concurrent workers inside _ratelimiting_enabled.  Each call of           *)
(* is_limited is one atomic step on the shared counter; the steps of        *)
(* different workers interleave.  The global key and each project key have  *)
(* a window of their own.  An event is counted among the passes of the      *)
(* global window in which the limiter counted its attempt.                  *)

InitWorkers == Init

OtherVars ==
    <<pc, ledger, breaker, op, event, variants, all_grouphashes, calls, metrics, captured,
      oracle, should_call, similar_issues, returned, raised, before>>

\* Faulty variant: a global limit that is hit does not reject
CheckGlobalLimit_unheeded(w) ==
    /\ workers[w].pc = "idle"
    /\ rlGlobal < MaxCount
    /\ \E p \in Projects :
         /\ rlGlobal' = is_limited(rlGlobal, GlobalLimit).count
         /\ workers' = [workers EXCEPT ![w] =
                           [pc |-> "global-passed", project |-> p, counted |-> TRUE]]
    /\ UNCHANGED <<rlProject, passes>>
    /\ UNCHANGED OtherVars

\* A worker enters _ratelimiting_enabled for an event of project p and
\* consults the global key
CheckGlobalLimit(w) ==
    /\ workers[w].pc = "idle"
    /\ rlGlobal < MaxCount
    /\ \E p \in Projects :
         /\ rlGlobal' = is_limited(rlGlobal, GlobalLimit).count
         /\ workers' = [workers EXCEPT ![w] =
                           IF is_limited(rlGlobal, GlobalLimit).limited
                           THEN IdleWorker
                           ELSE [pc |-> "global-passed", project |-> p, counted |-> TRUE]]
    /\ UNCHANGED <<rlProject, passes>>
    /\ UNCHANGED OtherVars

\* The worker consults the key of its project; when that does not limit
\* either, the gate lets the event through
CheckProjectLimit(w) ==
    /\ workers[w].pc = "global-passed"
    /\ rlProject[workers[w].project] < MaxCount
    /\ \E p \in {workers[w].project} :
         /\ rlProject' = [rlProject EXCEPT ![p] = is_limited(rlProject[p], ProjectLimit).count]
         /\ passes' =
               IF is_limited(rlProject[p], ProjectLimit).limited
               THEN passes
               ELSE [global |-> passes.global + (IF workers[w].counted THEN 1 ELSE 0),
                     project |-> [passes.project EXCEPT ![p] = @ + 1]]
    /\ workers' = [workers EXCEPT ![w] = IdleWorker]
    /\ UNCHANGED rlGlobal
    /\ UNCHANGED OtherVars

\* The window of the global key ends; the workers still inside the check
\* belong to the window that has ended
GlobalWindowExpire ==
    /\ rlGlobal > 0
    /\ rlGlobal' = 0
    /\ passes' = [passes EXCEPT !.global = 0]
    /\ workers' = [w \in Workers |-> [workers[w] EXCEPT !.counted = FALSE]]
    /\ UNCHANGED rlProject
    /\ UNCHANGED OtherVars

\* The window of a project's key ends
ProjectWindowExpire(p) ==
    /\ rlProject[p] > 0
    /\ rlProject' = [rlProject EXCEPT ![p] = 0]
    /\ passes' = [passes EXCEPT !.project[p] = 0]
    /\ UNCHANGED <<rlGlobal, workers>>
    /\ UNCHANGED OtherVars

NextWorkers ==
    \/ \E w \in Workers : CheckGlobalLimit(w)
    \/ \E w \in Workers : CheckProjectLimit(w)
    \/ GlobalWindowExpire
    \/ \E p \in Projects : ProjectWindowExpire(p)

SpecWorkers == InitWorkers /\ [][NextWorkers]_vars

---------------------------------------------------------------------------
(* What the record of the last call says *)

InMaybeCheck == pc = "returned" /\ op = "maybe_check_seer_for_matching_grouphash"

InGetSimilarIssues == pc = "returned" /\ op = "get_seer_similar_issues"

Made(name) == name \in Range(calls)

\* The place of the first call of that name
IndexOf(name) == CHOOSE i \in 1..Len(calls) : calls[i] = name /\ \A j \in 1..(i - 1) : calls[j] # name

\* The blocker labels other than none the call recorded
Blockers ==
    {metrics[i].blocker : i \in {j \in 1..Len(metrics) : "blocker" \in DOMAIN metrics[j]}}
        \ {"none"}

CallMadeMetric ==
    \E i \in 1..Len(metrics) :
        metrics[i].name = "did_call_seer" /\ metrics[i].call_made

SeerRequested == Made("get_similarity_data_from_seer")

SeerAnswered == SeerRequested /\ ~oracle.seer.error

SeerFailed == SeerRequested /\ oracle.seer.error

RateLimiterUntouched ==
    /\ ~Made("_ratelimiting_enabled")
    /\ ~Made("is_limited:global")
    /\ ~Made("is_limited:project")
    /\ rlGlobal = before.rlGlobal
    /\ rlProject = before.rlProject

\* The facts that make each check of the gate fail for the event of the call
ContentIneligible ==
    ~event.has_stacktrace \/ event.platform \in SEER_INELIGIBLE_EVENT_PLATFORMS

NotBackfilled == ~event.backfilled

CustomizedFingerprint ==
    \/ DEFAULT_MARKER \in Range(event.fingerprint) /\ Len(event.fingerprint) > 1
    \/ /\ DEFAULT_MARKER \notin Range(event.fingerprint)
       /\ variants \cap {"custom_fingerprint", "built_in_fingerprint"} # {}

ExcessFrames == event.too_many_frames

KillswitchOn == Made("killswitch_enabled") /\ oracle.killswitch

BreakerOpen ==
    breaker.total >= BreakerMinSample
        /\ breaker.failures * 100 > BreakerErrorPercent * breaker.total

StacktraceStringEmpty ==
    Made("_has_empty_stacktrace_string") /\ oracle.stacktrace \in {None, ""}

GlobalLimitReached == before.rlGlobal >= GlobalLimit

ProjectLimitReached == before.rlProject[event.project] >= ProjectLimit

Fails(check) ==
    CASE check = "_event_content_is_seer_eligible" -> ContentIneligible
      [] check = "_project_has_similarity_grouping_enabled" -> NotBackfilled
      [] check = "_has_customized_fingerprint" -> CustomizedFingerprint
      [] check = "_has_too_many_contributing_frames" -> ExcessFrames
      [] check = "killswitch_enabled" -> KillswitchOn
      [] check = "_circuit_breaker_broken" -> BreakerOpen
      [] check = "_has_empty_stacktrace_string" -> StacktraceStringEmpty
      [] check = "_ratelimiting_enabled" -> GlobalLimitReached \/ ProjectLimitReached

\* The blocker labels that name each check
LabelsOf(check) ==
    CASE check = "_event_content_is_seer_eligible" -> {"no-stacktrace", "unsupported-platform"}
      [] check = "_project_has_similarity_grouping_enabled" -> {}
      [] check = "_has_customized_fingerprint" ->
            {"hybrid-fingerprint", "custom_fingerprint", "built_in_fingerprint"}
      [] check = "_has_too_many_contributing_frames" -> {"excess-frames"}
      [] check = "killswitch_enabled" -> {}
      [] check = "_circuit_breaker_broken" -> {"circuit-breaker"}
      [] check = "_has_empty_stacktrace_string" -> {"empty-stacktrace-string"}
      [] check = "_ratelimiting_enabled" -> {"global-rate-limit", "project-rate-limit"}

\* The order of the checks in should_call_seer_for_grouping
CodeOrder ==
    << "_event_content_is_seer_eligible", "_project_has_similarity_grouping_enabled",
       "_has_customized_fingerprint", "_has_too_many_contributing_frames",
       "killswitch_enabled", "_circuit_breaker_broken",
       "_has_empty_stacktrace_string", "_ratelimiting_enabled" >>

\* The order of the checks as the specification lists them
ListedOrder ==
    << "_event_content_is_seer_eligible", "_project_has_similarity_grouping_enabled",
       "_has_too_many_contributing_frames", "_has_customized_fingerprint",
       "killswitch_enabled", "_circuit_breaker_broken",
       "_has_empty_stacktrace_string", "_ratelimiting_enabled" >>

IsCheck(name) == name \in Range(CodeOrder)

ChecksRun == SelectSeq(calls, IsCheck)

IsPrefix(s, t) == Len(s) <= Len(t) /\ \A i \in 1..Len(s) : s[i] = t[i]

SomeCheckFails == \E i \in 1..Len(CodeOrder) : Fails(CodeOrder[i])

\* The earliest failing check in the given order
EarliestFailing(order) ==
    order[CHOOSE i \in 1..Len(order) :
            Fails(order[i]) /\ \A j \in 1..(i - 1) : ~Fails(order[j])]

FailsOtherThanRateLimit ==
    \E i \in 1..(Len(CodeOrder) - 1) : Fails(CodeOrder[i])

---------------------------------------------------------------------------
(* The claims *)

\* C1: the rate-limit check is the last gate: for an event rejected by any
\* other check the rate limiter backend is never consulted and neither the
\* global nor the per-project counter changes.
C1_RateLimitIsLastGate ==
    (InMaybeCheck /\ FailsOtherThanRateLimit) =>
        should_call = "False" /\ RateLimiterUntouched

\* An event rejected for its empty stacktrace string while the window had
\* already counted an attempt
C1_Witness ==
    /\ InMaybeCheck
    /\ StacktraceStringEmpty
    /\ should_call = "False"
    /\ before.rlGlobal = 1
    /\ rlGlobal = 1

\* C2: the global key is checked before the per-project key; when the global
\* check reports limited, the per-project check is not invoked, its counter is
\* untouched and the gate rejects with blocker global-rate-limit.
C2_GlobalBeforeProject ==
    InMaybeCheck =>
        /\ Made("is_limited:project") =>
              Made("is_limited:global")
                  /\ IndexOf("is_limited:global") < IndexOf("is_limited:project")
        /\ (Made("_ratelimiting_enabled") /\ GlobalLimitReached) =>
              /\ Made("is_limited:global")
              /\ ~Made("is_limited:project")
              /\ rlProject = before.rlProject
              /\ should_call = "False"
              /\ Blockers = {"global-rate-limit"}

\* The global limit trips for a project that has itself used none of its budget
C2_Witness ==
    /\ InMaybeCheck
    /\ Made("_ratelimiting_enabled")
    /\ GlobalLimitReached
    /\ before.rlProject[event.project] = 0
    /\ Blockers = {"global-rate-limit"}

\* C3: if the Seer request raises, maybe_check_seer_for_matching_grouphash
\* returns None, hands the error to the error sink, lets no error out and
\* changes no GroupHash metadata.
C3_SeerErrorIsAbsorbed ==
    (InMaybeCheck /\ SeerFailed) =>
        /\ returned = None
        /\ raised = None
        /\ captured = <<"Exception">>
        /\ ledger = before.ledger

C3_Witness ==
    /\ InMaybeCheck
    /\ SeerFailed
    /\ should_call = "True"
    /\ captured = <<"Exception">>

\* C4: nothing raises out of maybe_check_seer_for_matching_grouphash, also
\* when no entry of all_grouphashes has the event's primary hash.
C4_NothingRaises ==
    InMaybeCheck => raised = None

\* C5: a Seer request is issued only after the gate has passed; when the gate
\* rejects (an event without stacktrace is rejected with blocker
\* no-stacktrace), the call returns None, makes no Seer request, emits no
\* call-made metric and changes no GroupHash.
C5_NoRequestWithoutGate ==
    InMaybeCheck =>
        /\ SeerRequested => should_call = "True"
        /\ ~event.has_stacktrace => should_call = "False" /\ Blockers = {"no-stacktrace"}
        /\ should_call = "False" =>
              /\ returned = None
              /\ raised = None
              /\ ~SeerRequested
              /\ ~CallMadeMetric
              /\ ledger = before.ledger

C5_Witness ==
    /\ InMaybeCheck
    /\ ~event.has_stacktrace
    /\ should_call = "False"
    /\ Blockers = {"no-stacktrace"}
    /\ returned = None

\* The entries of all_grouphashes with the event's primary hash
SentEntries ==
    LET HasPrimaryHash(g) == before.ledger[g].hash = event.primary_hash
    IN SelectSeq(all_grouphashes, HasPrimaryHash)

\* C6: after a gate pass and a Seer answer, the metadata block of the entry
\* with the event's primary hash, if it has one, holds seer_date_sent equal to
\* its date_added, the event id, the model version of the response, the
\* returned match, and the top result's stacktrace distance exactly when there
\* is a match (None otherwise).
C6_MetadataRecordsTheCall ==
    (InMaybeCheck /\ should_call = "True" /\ SeerAnswered /\ SentEntries # <<>>) =>
        LET was == before.ledger[SentEntries[1]].metadata
            now == ledger[SentEntries[1]].metadata
        IN was.exists =>
            /\ now.exists
            /\ now.date_added = was.date_added
            /\ now.seer_date_sent = was.date_added
            /\ now.seer_event_sent = event.event_id
            /\ now.seer_model = similar_issues.metadata.similarity_model_version
            /\ now.seer_model = SEER_SIMILARITY_MODEL_VERSION
            /\ now.seer_matched_grouphash = returned
            /\ returned # None =>
                  now.seer_match_distance = oracle.seer.results[1].stacktrace_distance
            /\ returned = None => now.seer_match_distance = None

C6_Witness ==
    /\ InMaybeCheck
    /\ SeerAnswered
    /\ SentEntries # <<>>
    /\ before.ledger[SentEntries[1]].metadata.exists
    /\ returned # None
    /\ ledger[SentEntries[1]].metadata.seer_match_distance # None

\* The GroupHash rows of the event's project with the top result's parent hash
ParentRows ==
    {g \in DOMAIN before.ledger :
        /\ before.ledger[g].hash = oracle.seer.results[1].parent_hash
        /\ before.ledger[g].project = event.project}

\* C7: get_seer_similar_issues returns as match the GroupHash of the event's
\* project whose hash is the parent hash of the first result, None when there
\* is no result or no such GroupHash, never one of another project or of a
\* later result; the metadata it returns holds all results and the model
\* version.
C7_MatchIsTopResultInProject ==
    (pc = "returned" /\ SeerAnswered) =>
        /\ similar_issues.metadata =
              [results |-> oracle.seer.results,
               similarity_model_version |-> SEER_SIMILARITY_MODEL_VERSION]
        /\ oracle.seer.results = <<>> => similar_issues.match = None
        /\ oracle.seer.results # <<>> =>
              IF ParentRows = {}
              THEN similar_issues.match = None
              ELSE similar_issues.match \in ParentRows

\* The top result has no GroupHash in the project, a later one has
C7_Witness ==
    /\ pc = "returned"
    /\ SeerAnswered
    /\ Len(oracle.seer.results) = 2
    /\ ParentRows = {}
    /\ \E g \in DOMAIN ledger :
          /\ ledger[g].hash = oracle.seer.results[2].parent_hash
          /\ ledger[g].project = event.project
    /\ similar_issues.match = None

\* The stacktrace string get_seer_similar_issues works with: the one cached in
\* event.data, else the recomputed one
AvailableStacktraceString ==
    IF before.stacktrace_string # Absent THEN before.stacktrace_string ELSE oracle.stacktrace

\* C8: when the stacktrace string available to get_seer_similar_issues is
\* empty, it returns metadata with no results and the model version, no
\* match, and makes no Seer request.
C8_EmptyStringShortCircuits ==
    (InGetSimilarIssues /\ AvailableStacktraceString \in {None, ""}) =>
        /\ similar_issues =
              [metadata |-> [results |-> <<>>,
                             similarity_model_version |-> SEER_SIMILARITY_MODEL_VERSION],
               match |-> None]
        /\ returned = None
        /\ raised = None
        /\ ~SeerRequested

\* The cached string is empty although recomputing it gives frames
C8_Witness ==
    /\ InGetSimilarIssues
    /\ before.stacktrace_string = ""
    /\ oracle.stacktrace = "frames"
    /\ ~SeerRequested
    /\ similar_issues.metadata.similarity_model_version = SEER_SIMILARITY_MODEL_VERSION

\* C9 as stated: the checks run in the listed order (excess frames before
\* customized fingerprint), and a rejected event records the blocker of the
\* earliest failing check in that order.
C9_ListedOrder ==
    InMaybeCheck =>
        /\ IsPrefix(ChecksRun, ListedOrder)
        /\ should_call = "False" => Blockers \subseteq LabelsOf(EarliestFailing(ListedOrder))

\* C9 amended: the checks run in the order content, project backfill flag,
\* customized fingerprint, excess frames, killswitch, circuit breaker, empty
\* stacktrace string, rate limit; the gate rejects exactly when one of them
\* fails, no check after the earliest failing one runs (the backfill flag is
\* read even when the content is ineligible), and any blocker recorded is that
\* of the earliest failing check.
C9_CodeOrder ==
    InMaybeCheck =>
        /\ IsPrefix(ChecksRun, CodeOrder)
        /\ should_call = "False" <=> SomeCheckFails
        /\ should_call = "True" => ChecksRun = CodeOrder
        /\ should_call = "False" =>
              /\ ChecksRun[Len(ChecksRun)] \in
                    {EarliestFailing(CodeOrder), "_project_has_similarity_grouping_enabled"}
              /\ Len(ChecksRun) >= 2
              /\ Blockers \subseteq LabelsOf(EarliestFailing(CodeOrder))
        /\ (~ContentIneligible /\ ~NotBackfilled /\ ExcessFrames
               /\ event.fingerprint = <<DEFAULT_MARKER, "extra">>) =>
              Blockers = {"hybrid-fingerprint"}

\* An event with excess frames and a hybrid fingerprint
C9_Witness ==
    /\ InMaybeCheck
    /\ ~ContentIneligible
    /\ ~NotBackfilled
    /\ ExcessFrames
    /\ event.fingerprint = <<DEFAULT_MARKER, "extra">>
    /\ Blockers = {"hybrid-fingerprint"}

\* C10 as stated: every rejection records a metric with a blocker label other
\* than none.
C10_EveryRejectionHasBlocker ==
    (InMaybeCheck /\ should_call = "False") => Blockers # {}

BackfillMetrics ==
    {i \in 1..Len(metrics) : metrics[i].name = "event_project_backfill_status"}

\* C10 amended: a rejection by the content check, the customized-fingerprint
\* check, the excess-frames check, the circuit breaker, an empty ("")
\* stacktrace string or a rate limit records exactly one blocker label, which
\* names that check; a rejection because the project is not backfilled records
\* the backfill-status metric with backfilled false and no blocker label; for
\* a rejection by the killswitch or a missing (None) stacktrace string this
\* module records no blocker label.
C10_BlockerPerRejectingCheck ==
    (InMaybeCheck /\ should_call = "False") =>
        LET check == EarliestFailing(CodeOrder)
            unlabelled ==
                \/ check \in {"_project_has_similarity_grouping_enabled", "killswitch_enabled"}
                \/ check = "_has_empty_stacktrace_string" /\ oracle.stacktrace = None
        IN /\ unlabelled => Blockers = {}
           /\ ~unlabelled => Cardinality(Blockers) = 1 /\ Blockers \subseteq LabelsOf(check)
           /\ \E i \in BackfillMetrics : metrics[i].backfilled = event.backfilled

\* The project is not backfilled: the rejection carries no blocker label
C10_Witness ==
    /\ InMaybeCheck
    /\ should_call = "False"
    /\ ~ContentIneligible
    /\ NotBackfilled
    /\ Blockers = {}
    /\ \E i \in BackfillMetrics : ~metrics[i].backfilled

InHasCustomizedFingerprint == pc = "returned" /\ op = "_has_customized_fingerprint"

FingerprintVariants == variants \cap {"custom_fingerprint", "built_in_fingerprint"}

\* C11: _has_customized_fingerprint answers not customized for the fingerprint
\* that is exactly the default marker, whatever the variants; customized with
\* blocker hybrid-fingerprint for the default marker together with another
\* value; and for a fingerprint without the default marker, customized exactly
\* when variants holds custom_fingerprint or built_in_fingerprint, the blocker
\* being that variant's kind.
C11_FingerprintClassification ==
    InHasCustomizedFingerprint =>
        LET fingerprint == event.fingerprint IN
        /\ fingerprint = <<DEFAULT_MARKER>> => returned = "False" /\ Blockers = {}
        /\ (DEFAULT_MARKER \in Range(fingerprint)
               /\ Range(fingerprint) # {DEFAULT_MARKER}) =>
              returned = "True" /\ Blockers = {"hybrid-fingerprint"}
        /\ DEFAULT_MARKER \notin Range(fingerprint) =>
              /\ returned = "True" <=> FingerprintVariants # {}
              /\ returned = "True" =>
                    Cardinality(Blockers) = 1 /\ Blockers \subseteq FingerprintVariants
              /\ returned = "False" => Blockers = {}

\* The pure default fingerprint while variants holds a custom fingerprint variant
C11_Witness ==
    /\ InHasCustomizedFingerprint
    /\ event.fingerprint = <<DEFAULT_MARKER>>
    /\ "custom_fingerprint" \in variants
    /\ returned = "False"

\* C12: whenever the circuit breaker denies the request (failure ratio over at
\* least the minimum sample above the threshold), should_call_seer_for_grouping
\* returns False with blocker circuit-breaker, and for that event the
\* stacktrace string is not computed, the rate limiter is not consulted and
\* Seer is not called; when the breaker allows, this check does not reject.
C12_OpenBreakerRejects ==
    InMaybeCheck =>
        /\ BreakerOpen =>
              /\ should_call = "False"
              /\ ~Made("get_stacktrace_string_with_metrics")
              /\ event.stacktrace_string = Absent
              /\ RateLimiterUntouched
              /\ ~SeerRequested
        /\ (Made("should_allow_request") /\ BreakerOpen) =>
              /\ Blockers = {"circuit-breaker"}
              /\ calls[Len(calls)] = "should_allow_request"
        /\ (Made("should_allow_request") /\ ~BreakerOpen) =>
              /\ "circuit-breaker" \notin Blockers
              /\ Made("_has_empty_stacktrace_string")

\* The breaker denies an event that every earlier check lets through, in a
\* window that still has rate-limit budget
C12_Witness ==
    /\ InMaybeCheck
    /\ BreakerOpen
    /\ Made("should_allow_request")
    /\ should_call = "False"
    /\ Blockers = {"circuit-breaker"}
    /\ before.rlGlobal < GlobalLimit

\* How often the last call made the call of that name
Count(name) == Cardinality({i \in 1..Len(calls) : calls[i] = name})

CallMadeMetrics ==
    {i \in 1..Len(metrics) : metrics[i].name = "did_call_seer" /\ metrics[i].call_made}

\* C13: one invocation of maybe_check_seer_for_matching_grouphash makes
\* exactly one Seer request when the gate passes and none otherwise; a failed
\* request is not retried; after a gate pass the string cached on the event is
\* not empty, so get_seer_similar_issues does not short-circuit; every
\* call-made metric stands for one request.
C13_ExactlyOneRequest ==
    InMaybeCheck =>
        /\ should_call = "True" =>
              /\ Count("get_similarity_data_from_seer") = 1
              /\ oracle.stacktrace \notin {None, ""}
              /\ Count("get_seer_similar_issues") = 1
        /\ should_call = "False" => Count("get_similarity_data_from_seer") = 0
        /\ Cardinality(CallMadeMetrics) = Count("get_similarity_data_from_seer")

\* The one request fails and is not repeated
C13_Witness ==
    /\ InMaybeCheck
    /\ should_call = "True"
    /\ SeerFailed
    /\ Count("get_similarity_data_from_seer") = 1
    /\ Cardinality(CallMadeMetrics) = 1

\* C14 as stated: the ledger changes only when Seer's answer led to a match.
C14_MutatedOnlyOnMatch ==
    (InMaybeCheck /\ ledger # before.ledger) => returned # None

\* C14 amended: the ledger changes only after a gate pass and a Seer answer,
\* and only in the metadata block of the first candidate with the event's
\* primary hash; that block, when it exists, is updated whether or not there is
\* a match: without a match it records the date, the event id and the model
\* version, with seer_matched_grouphash and seer_match_distance None.  When the
\* gate rejects, the request fails, no candidate has the primary hash or the
\* candidate has no metadata block, the ledger stays as it was.
C14_MutatedAfterEveryAnswer ==
    InMaybeCheck =>
        LET updated ==
                /\ SeerAnswered
                /\ SentEntries # <<>>
                /\ before.ledger[SentEntries[1]].metadata.exists
        IN /\ ~updated => ledger = before.ledger
           /\ (updated /\ returned = None) =>
                 LET was == before.ledger[SentEntries[1]].metadata
                 IN ledger = [before.ledger EXCEPT ![SentEntries[1]].metadata =
                                 [was EXCEPT !.seer_date_sent = was.date_added,
                                             !.seer_event_sent = event.event_id,
                                             !.seer_model = SEER_SIMILARITY_MODEL_VERSION,
                                             !.seer_matched_grouphash = None,
                                             !.seer_match_distance = None]]

\* Seer answers with no result and the metadata of the entry sent changes
C14_Witness ==
    /\ InMaybeCheck
    /\ SeerAnswered
    /\ oracle.seer.results = <<>>
    /\ returned = None
    /\ ledger # before.ledger
    /\ SentEntries # <<>>
    /\ ledger[SentEntries[1]].metadata.seer_event_sent = event.event_id

RanTwice == op = "_ratelimiting_enabled" /\ Len(returned) = 2

FirstFailing ==
    CHOOSE i \in 1..Len(CodeOrder) :
        Fails(CodeOrder[i]) /\ \A j \in 1..(i - 1) : ~Fails(CodeOrder[j])

\* C16 as stated: once a check rejects, no later check is evaluated and none
\* of its side effects occurs; when the content is ineligible the backfill
\* flag is not read and the backfill-status metric is not emitted.
C16_EveryCheckShortCircuits ==
    (InMaybeCheck /\ SomeCheckFails) =>
        /\ ChecksRun = SubSeq(CodeOrder, 1, FirstFailing)
        /\ ContentIneligible =>
              ~Made("_project_has_similarity_grouping_enabled") /\ BackfillMetrics = {}

\* C16 amended: the content check and the backfill-flag check are both always
\* evaluated, and both emit their metric, before either result is used; from
\* there on each check short-circuits the chain: once a check rejects, no later
\* check is evaluated, the stacktrace string is neither computed nor cached
\* unless the chain reached that check, and the rate limiter is untouched
\* unless the chain reached the rate limit.
C16_ShortCircuitAfterBackfill ==
    InMaybeCheck =>
        /\ Len(ChecksRun) >= 2
        /\ SubSeq(ChecksRun, 1, 2) = SubSeq(CodeOrder, 1, 2)
        /\ Cardinality(BackfillMetrics) = 1
        /\ \E i \in 1..Len(metrics) : metrics[i].name = "event_content_seer_eligible"
        /\ SomeCheckFails =>
              /\ ChecksRun =
                    SubSeq(CodeOrder, 1, IF FirstFailing < 2 THEN 2 ELSE FirstFailing)
              /\ FirstFailing < 7 =>
                    /\ ~Made("get_stacktrace_string_with_metrics")
                    /\ event.stacktrace_string = Absent
              /\ FirstFailing < 8 => RateLimiterUntouched
              /\ ~SeerRequested

\* Ineligible content, and the backfill flag is read all the same
C16_Witness ==
    /\ InMaybeCheck
    /\ ContentIneligible
    /\ should_call = "False"
    /\ Made("_project_has_similarity_grouping_enabled")
    /\ Cardinality(BackfillMetrics) = 1
    /\ Len(ChecksRun) = 2

\* C17 as stated: the only ledger change of an invocation is the metadata
\* update of the first candidate with the event's primary hash; every other
\* candidate, the matched parent entry and every entry without a metadata
\* block stay unchanged; no entry is created or deleted and (project, hash)
\* stays unique.
C17_MatchedParentUnchanged ==
    InMaybeCheck =>
        /\ DOMAIN ledger = DOMAIN before.ledger
        /\ \A g \in DOMAIN ledger :
              ledger[g] # before.ledger[g] => SentEntries # <<>> /\ g = SentEntries[1]
        /\ returned # None => ledger[returned] = before.ledger[returned]

\* C17 amended: as stated, except that the matched parent entry stays
\* unchanged only when it is another entry than that first candidate: when
\* Seer's top result is the event's own primary hash, the entry updated and
\* the entry matched are the same one.
C17_OnlySentEntryChanges ==
    InMaybeCheck =>
        /\ DOMAIN ledger = DOMAIN before.ledger
        /\ \A g \in DOMAIN ledger :
              /\ ledger[g].project = before.ledger[g].project
              /\ ledger[g].hash = before.ledger[g].hash
              /\ ledger[g].metadata.exists = before.ledger[g].metadata.exists
              /\ ~before.ledger[g].metadata.exists => ledger[g] = before.ledger[g]
              /\ ledger[g] # before.ledger[g] => SentEntries # <<>> /\ g = SentEntries[1]
        /\ (returned # None /\ (SentEntries = <<>> \/ returned # SentEntries[1])) =>
              ledger[returned] = before.ledger[returned]
        /\ \A g, h \in DOMAIN ledger :
              (ledger[g].project = ledger[h].project /\ ledger[g].hash = ledger[h].hash) =>
                  g = h

\* Two candidates: the one with the primary hash is updated, the other one,
\* which is the matched parent, is not
C17_Witness ==
    /\ InMaybeCheck
    /\ Len(all_grouphashes) = 2
    /\ SentEntries # <<>>
    /\ ledger[SentEntries[1]] # before.ledger[SentEntries[1]]
    /\ returned # None
    /\ returned # SentEntries[1]
    /\ returned \in Range(all_grouphashes)
    /\ ledger[returned] = before.ledger[returned]

\* The workers that have passed the global key in the current global window
\* and have not yet consulted their project's key
InFlight == {w \in Workers : workers[w].pc = "global-passed" /\ workers[w].counted}

C19_ScratchKeyIsTransient ==
    InMaybeCheck => event.stacktrace_string = Absent

\* C20 as stated: every increment of the global rate-limit counter belongs to
\* an event for which the gate then passes; an event rejected by the
\* per-project limit does not count against the global limit.
C20_OnlyPassingEventsCount ==
    (InMaybeCheck /\ rlGlobal # before.rlGlobal) => should_call = "True"

\* C20 amended: an event rejected by an earlier check touches neither counter;
\* every event that reaches the rate-limit step counts as one attempt against
\* the global limit, also when the global or the per-project limit then
\* rejects it; the per-project counter is incremented exactly when the global
\* key did not limit, and only for the event's project.
C20_EveryAttemptCounts ==
    InMaybeCheck =>
        /\ rlGlobal =
              before.rlGlobal + (IF Made("_ratelimiting_enabled") THEN 1 ELSE 0)
        /\ \A p \in Projects :
              rlProject[p] =
                 before.rlProject[p]
                    + (IF Made("is_limited:project") /\ p = event.project THEN 1 ELSE 0)
        /\ Made("_ratelimiting_enabled") <=> ~FailsOtherThanRateLimit
        /\ Made("is_limited:project") <=>
              Made("_ratelimiting_enabled") /\ ~GlobalLimitReached
        /\ Blockers = {"project-rate-limit"} =>
              should_call = "False" /\ rlGlobal = before.rlGlobal + 1
        /\ should_call = "True" =>
              /\ rlGlobal = before.rlGlobal + 1
              /\ rlProject[event.project] = before.rlProject[event.project] + 1

\* An event rejected by the per-project limit has used one attempt of the
\* global limit
C20_Witness ==
    /\ InMaybeCheck
    /\ should_call = "False"
    /\ Blockers = {"project-rate-limit"}
    /\ rlGlobal = before.rlGlobal + 1
    /\ rlGlobal <= GlobalLimit

====
